---------------------------- MODULE Spec2Model ----------------------------
(*************************************************************************)
(* A model of proxy-relay.py: a local relay that injects a               *)
(* Proxy-Authorization header and forwards to an upstream proxy.         *)
(*                                                                       *)
(* Byte strings and text are TLA+ strings, one character per byte.  The  *)
(* character "~" stands for the byte 0xFF (never valid in UTF-8) and "#" *)
(* for the text character U+FFFD; "{|}" stands for the three bytes       *)
(* EF BF BD that encode U+FFFD.  No input of the model contains "#",     *)
(* "{", "|" or "}".                                                      *)
(*************************************************************************)
EXTENDS Integers, Sequences, FiniteSets, TLC

-----------------------------------------------------------------------------
(* Python str / bytes primitives *)

CRLF == "\r\n"
CRLFCRLF == "\r\n\r\n"

Min(a, b) == IF a <= b THEN a ELSE b

\* s[i] as a one-character string (1-based)
Char(s, i) == SubSeq(s, i, i)

\* s[:n] and s[n:] with 0-based Python offsets
Take(s, n) == SubSeq(s, 1, n)
Drop(s, n) == SubSeq(s, n + 1, Len(s))

\* s.startswith(p)
StartsWith(s, p) == Len(p) <= Len(s) /\ SubSeq(s, 1, Len(p)) = p

\* the 1-based positions at which p occurs in s
Occurrences(s, p) ==
    { i \in 1..(Len(s) - Len(p) + 1) : SubSeq(s, i, i + Len(p) - 1) = p }

\* 1-based position of the first occurrence of p in s, 0 when absent
\* (s.find(p) + 1)
Find(s, p) ==
    LET occ == Occurrences(s, p) IN
    IF occ = {} THEN 0 ELSE CHOOSE i \in occ : \A j \in occ : i <= j

\* p in s
Contains(s, p) == \E i \in 1..(Len(s) - Len(p) + 1) : SubSeq(s, i, i + Len(p) - 1) = p

\* 1-based position of the last occurrence of p in s, 0 when absent
\* (s.rfind(p) + 1)
RFind(s, p) ==
    LET occ == Occurrences(s, p) IN
    IF occ = {} THEN 0 ELSE CHOOSE i \in occ : \A j \in occ : i >= j

\* s.replace(old, new): every non-overlapping occurrence, left to right
RECURSIVE Replace(_, _, _)
Replace(s, old, new) ==
    LET i == Find(s, old) IN
    IF i = 0 THEN s
    ELSE Take(s, i - 1) \o new \o Replace(Drop(s, i - 1 + Len(old)), old, new)

\* s.split(sep): the list of pieces, always at least one
RECURSIVE Split(_, _)
Split(s, sep) ==
    LET i == Find(s, sep) IN
    IF i = 0 THEN <<s>>
    ELSE <<Take(s, i - 1)>> \o Split(Drop(s, i - 1 + Len(sep)), sep)

\* s.split(sep, 1): split at the first occurrence only
Split1(s, sep) ==
    LET i == Find(s, sep) IN
    IF i = 0 THEN <<s>>
    ELSE <<Take(s, i - 1), Drop(s, i - 1 + Len(sep))>>

\* s.rsplit(sep, 1): split at the last occurrence only
RSplit1(s, sep) ==
    LET i == RFind(s, sep) IN
    IF i = 0 THEN <<s>>
    ELSE <<Take(s, i - 1), Drop(s, i - 1 + Len(sep))>>

LowerChar(c) ==
    CASE c = "A" -> "a" [] c = "B" -> "b" [] c = "C" -> "c" [] c = "D" -> "d"
      [] c = "E" -> "e" [] c = "F" -> "f" [] c = "G" -> "g" [] c = "H" -> "h"
      [] c = "I" -> "i" [] c = "J" -> "j" [] c = "K" -> "k" [] c = "L" -> "l"
      [] c = "M" -> "m" [] c = "N" -> "n" [] c = "O" -> "o" [] c = "P" -> "p"
      [] c = "Q" -> "q" [] c = "R" -> "r" [] c = "S" -> "s" [] c = "T" -> "t"
      [] c = "U" -> "u" [] c = "V" -> "v" [] c = "W" -> "w" [] c = "X" -> "x"
      [] c = "Y" -> "y" [] c = "Z" -> "z" [] OTHER -> c

UpperChar(c) ==
    CASE c = "a" -> "A" [] c = "b" -> "B" [] c = "c" -> "C" [] c = "d" -> "D"
      [] c = "e" -> "E" [] c = "f" -> "F" [] c = "g" -> "G" [] c = "h" -> "H"
      [] c = "i" -> "I" [] c = "j" -> "J" [] c = "k" -> "K" [] c = "l" -> "L"
      [] c = "m" -> "M" [] c = "n" -> "N" [] c = "o" -> "O" [] c = "p" -> "P"
      [] c = "q" -> "Q" [] c = "r" -> "R" [] c = "s" -> "S" [] c = "t" -> "T"
      [] c = "u" -> "U" [] c = "v" -> "V" [] c = "w" -> "W" [] c = "x" -> "X"
      [] c = "y" -> "Y" [] c = "z" -> "Z" [] OTHER -> c

\* s.lower() and s.upper()
RECURSIVE Lower(_)
Lower(s) == IF s = "" THEN "" ELSE LowerChar(Char(s, 1)) \o Lower(Drop(s, 1))

RECURSIVE Upper(_)
Upper(s) == IF s = "" THEN "" ELSE UpperChar(Char(s, 1)) \o Upper(Drop(s, 1))

BadByte == "~"
ReplChar == "#"
ReplBytes == "{|}"

\* b.decode("utf-8", errors="replace"): a byte that is not UTF-8 becomes U+FFFD
RECURSIVE DecodeReplace(_)
DecodeReplace(b) ==
    LET i == Find(b, BadByte) IN
    IF i = 0 THEN b
    ELSE Take(b, i - 1) \o ReplChar \o DecodeReplace(Drop(b, i))

\* b.decode() raises UnicodeDecodeError on a byte that is not UTF-8
DecodeRaises(b) == Contains(b, BadByte)

\* s.encode(): U+FFFD becomes the three bytes EF BF BD
RECURSIVE Encode(_)
Encode(s) ==
    LET i == Find(s, ReplChar) IN
    IF i = 0 THEN s
    ELSE Take(s, i - 1) \o ReplBytes \o Encode(Drop(s, i))

DigitVal(c) ==
    CASE c = "0" -> 0 [] c = "1" -> 1 [] c = "2" -> 2 [] c = "3" -> 3
      [] c = "4" -> 4 [] c = "5" -> 5 [] c = "6" -> 6 [] c = "7" -> 7
      [] c = "8" -> 8 [] c = "9" -> 9 [] OTHER -> -1

\* int(s) succeeds on a non-empty string of decimal digits
IsInt(s) == s # "" /\ \A i \in 1..Len(s) : DigitVal(Char(s, i)) >= 0

RECURSIVE IntOf(_)
IntOf(s) ==
    IF s = "" THEN 0
    ELSE 10 * IntOf(Take(s, Len(s) - 1)) + DigitVal(Char(s, Len(s)))

-----------------------------------------------------------------------------
(* parse_proxy_url *)

\* Optional values: <<>> is None, <<v>> is v
None == <<>>
Some(v) == <<v>>

ValueError == [ok |-> FALSE, error |-> "ValueError"]

\* url.replace("http://", "")
strip_scheme(url) == Replace(url, "http://", "")

parse_proxy_url(url0) ==
    LET url      == strip_scheme(url0)
        hasAt    == Contains(url, "@")
        parts    == RSplit1(url, "@")
        creds    == parts[1]
        hostport == IF hasAt THEN parts[2] ELSE url
        up       == Split1(creds, ":")
        hp       == Split(hostport, ":")
    IN  IF hasAt /\ Len(up) # 2 THEN ValueError
        ELSE IF Len(hp) # 2 THEN ValueError
        ELSE IF ~IsInt(hp[2]) THEN ValueError
        ELSE [ok       |-> TRUE,
              host     |-> hp[1],
              port     |-> IntOf(hp[2]),
              user     |-> IF hasAt THEN Some(up[1]) ELSE None,
              password |-> IF hasAt THEN Some(up[2]) ELSE None]

-----------------------------------------------------------------------------
(* make_auth_header *)

\* ord(c) for the printable ASCII characters other than the double quote,
\* the backslash and the backquote
Ascii35 == "#$%&'()*+,-./0123456789:;<=>?@ABCDEFGHIJKLMNOPQRSTUVWXYZ["
Ascii97 == "abcdefghijklmnopqrstuvwxyz{|}~"
Ord(c) ==
    IF Contains(Ascii35, c) THEN 34 + Find(Ascii35, c)
    ELSE IF Contains(Ascii97, c) THEN 96 + Find(Ascii97, c)
    ELSE IF c = "]" THEN 93 ELSE IF c = "^" THEN 94 ELSE IF c = "_" THEN 95
    ELSE IF c = "!" THEN 33 ELSE 32

B64Alphabet == "ABCDEFGHIJKLMNOPQRSTUVWXYZabcdefghijklmnopqrstuvwxyz0123456789+/"
B64Char(n) == Char(B64Alphabet, n + 1)

\* base64.b64encode(s).decode(): three bytes become four characters, a last
\* group of one or two bytes is padded with "="
RECURSIVE b64encode(_)
b64encode(s) ==
    IF s = "" THEN ""
    ELSE LET n  == Min(Len(s), 3)
             b1 == Ord(Char(s, 1))
             b2 == IF n >= 2 THEN Ord(Char(s, 2)) ELSE 0
             b3 == IF n = 3 THEN Ord(Char(s, 3)) ELSE 0
             v  == b1 * 65536 + b2 * 256 + b3
         IN  B64Char(v \div 262144) \o B64Char((v \div 4096) % 64)
                 \o (IF n >= 2 THEN B64Char((v \div 64) % 64) ELSE "=")
                 \o (IF n = 3 THEN B64Char(v % 64) ELSE "=")
                 \o b64encode(Drop(s, 3))

\* lines 31-34
make_auth_header(user, password) ==
    "Proxy-Authorization: Basic " \o b64encode(user \o ":" \o password) \o CRLF

\* "Proxy-Authorization: Basic " + base64("u:p") + CRLF, the header main()
\* builds for the credentials u / p
AuthHeaderUP == "Proxy-Authorization: Basic dTpw\r\n"

\* the values main() can pass as auth_header: none, or the computed header
AuthHeaders == {"", AuthHeaderUP}

-----------------------------------------------------------------------------
(* Inputs of a session *)

\* the byte streams a client may send over the lifetime of its connection;
\* a peer closes (recv returns b"") only once its stream is exhausted, so a
\* client that gives up early is a stream without a terminator
Requests ==
    { "CONNECT h:1 HTTP/1.1\r\nA: 1\r\n\r\nab",
      "connect h:1 HTTP/1.1\r\nProxy-Authorization: x\r\n\r\n",
      "GET / HTTP/1.1\r\nproxy-authorization: x\r\nA: 1\r\nPROXY-AUTHORIZATION: y\r\nB: 2\r\n\r\n",
      "POST / HTTP/1.1\r\nN: caf~\r\n\r\nbody",
      "CONNECTS h:1 HTTP/1.1\r\n\r\n",
      "GET / HT",
      "" }

\* the byte streams the upstream proxy may send over its connection
Responses ==
    { "HTTP/1.1 200 OK\r\n\r\nxy",
      "HTTP/1.1 407 Denied\r\n\r\n",
      "HTTP/1.1 200\r\n\r\n",
      "HTTP/1.1 204 No Content\r\n\r\n",
      "HTTP/1.1 502 not 200 OK\r\n\r\n",
      "HTTP/1.1 200 OK",
      "HTTP/1.1 200 ~\r\n\r\n",
      "" }

\* the largest short read (and the most bytes a failing sendall delivers)
\* the model distinguishes; a recv may also return everything available
MaxShort == 2

\* the number of connections that arrive at the listening socket
MaxSessions == 2

RecvSize == 4096
RelayRecvSize == 65536

\* the lengths recv(cap) can return when avail bytes are still to come
ChunkLens(avail, cap) ==
    { n \in 1..Min(avail, cap) : n <= MaxShort \/ n = Min(avail, cap) }

\* the number of bytes a sendall of len bytes may deliver before it raises
PartialLens(len) == 0..Min(len - 1, MaxShort)

-----------------------------------------------------------------------------
(* handle_client: header framing and request rewriting (pure parts) *)

\* data.index(b"\r\n\r\n"), 0-based
header_end(d) == Find(d, CRLFCRLF) - 1

\* data[:header_end].decode("utf-8", errors="replace")
headers(d) == DecodeReplace(Take(d, header_end(d)))

\* data[header_end + 4:]
rest(d) == Drop(d, header_end(d) + 4)

\* headers.split("\r\n")
lines(d) == Split(headers(d), CRLF)

is_proxy_auth(l) == StartsWith(Lower(l), "proxy-authorization:")

\* [l for l in lines[1:] if not l.lower().startswith("proxy-authorization:")]
other_headers(d) == SelectSeq(Tail(lines(d)), LAMBDA l : ~is_proxy_auth(l))

\* for h in other_headers: if h: new_headers += h + "\r\n"
RECURSIVE JoinHeaders(_)
JoinHeaders(hs) ==
    IF hs = <<>> THEN ""
    ELSE (IF Head(hs) # "" THEN Head(hs) \o CRLF ELSE "") \o JoinHeaders(Tail(hs))

\* lines 73-80
new_headers(d, auth) ==
    lines(d)[1] \o CRLF \o auth \o JoinHeaders(other_headers(d)) \o CRLF

\* new_headers.encode() + rest
upstream_request(d, auth) == Encode(new_headers(d, auth)) \o rest(d)

\* request_line.upper().startswith("CONNECT")
is_connect(rl) == StartsWith(Upper(rl), "CONNECT")

\* resp.split(b"\r\n")[0]
resp_line(r) == Split(r, CRLF)[1]

\* a faulty tunnel_established: "200" in resp_line, without the spaces
tunnel_established_loose(r) == Contains(resp_line(r), "200")

\* " 200 " in resp_line
tunnel_established(r) == Contains(resp_line(r), " 200 ")

connect_failed_msg(r) ==
    "[proxy-relay] Upstream CONNECT failed: " \o resp_line(r) \o "\n"

error_msg(site) == "[proxy-relay] Error: " \o site \o "\n"

-----------------------------------------------------------------------------
(* State *)

VARIABLES
    cfgIn,        \* the parts of the upstream URL handed to parse_proxy_url
    cfgOut,       \* None, or Some(result of parse_proxy_url)
    auth_header,  \* handle_client's auth_header argument
    pending,      \* per socket: the bytes its peer will still send
    sent,         \* per socket: the bytes delivered to its peer so far
    client_sock,  \* "open" | "closed"
    upstream,     \* "unbound" | "created" | "connected" | "closed"
    shutWr,       \* the sockets on which shutdown(SHUT_WR) was done
    pc,           \* where handle_client is
    data,         \* the request bytes accumulated by the framing loop
    request_line, \* lines[0] once line 73 has run, "" before
    resp,         \* the upstream bytes accumulated during negotiation
    fwd,          \* the payloads handle_client passed to client_sock.sendall
    opens,        \* how many times the upstream socket was created
    raised,       \* the call in handle_client that raised, or "none"
    log,          \* what was written to stderr
    pump,         \* per relay thread: its position and the chunk it holds
    expired,      \* the relay threads a join gave up on after its timeout
    UPSTREAM_PROXY, \* line 17: the configured URL, "" when none is set
    main_pc,      \* where main() is
    exit_status,  \* None while the process runs, Some(status) once it exited
    out,          \* what main() printed
    server,       \* the listening socket: "none" | "created" | "listening"
    backlog,      \* connections waiting to be accepted
    sess          \* per accepted connection: the state of its handler thread

mainVars == <<UPSTREAM_PROXY, main_pc, exit_status, out, server, backlog, sess>>
cfgVars  == <<cfgIn, cfgOut, mainVars>>
sockVars == <<pending, sent, client_sock, upstream, shutWr>>
sessVars == <<auth_header, pc, data, request_line, resp, fwd, opens, raised, log,
              pump, expired>>
vars     == <<cfgVars, sockVars, sessVars>>

Socks == {"client", "upstream"}

\* relay(client_sock, upstream) and relay(upstream, client_sock)
Pumps == {"c2u", "u2c"}
Src(p) == IF p = "c2u" THEN "client" ELSE "upstream"
Dst(p) == IF p = "c2u" THEN "upstream" ELSE "client"

\* a relay thread: where it is, the chunk it holds between recv and sendall,
\* and all bytes its recv calls returned (got) and its sendall calls
\* delivered (put) so far
IdlePump == [pc |-> "idle", chunk |-> "", got |-> "", put |-> ""]

\* whether the socket object was closed by close()
Closed(s) == IF s = "client" THEN client_sock = "closed" ELSE upstream = "closed"

\* no upstream URL under consideration
NoCfg == [scheme |-> "", user |-> "", pw |-> "", host |-> "", port |-> 0]

\* a session right after accept(): nothing read, no upstream socket
SessionStart(auth, req, rsp) ==
    /\ auth_header = auth
    /\ pending = [s \in Socks |-> IF s = "client" THEN req ELSE rsp]
    /\ sent = [s \in Socks |-> ""]
    /\ client_sock = "open"
    /\ upstream = "unbound"
    /\ shutWr = {}
    /\ pc = "recv_request"
    /\ data = ""
    /\ request_line = ""
    /\ resp = ""
    /\ fwd = <<>>
    /\ opens = 0
    /\ raised = "none"
    /\ log = <<>>
    /\ pump = [p \in Pumps |-> IdlePump]
    /\ expired = {}

\* the connections main() can come to accept
Sessions == 1..MaxSessions

\* a connection that has not arrived, or not been accepted yet
NoThread == [st |-> "none", err |-> FALSE]

\* main() has not run: nothing configured, printed, bound or accepted
MainIdle(url) ==
    /\ UPSTREAM_PROXY = url
    /\ main_pc = "start"
    /\ exit_status = None
    /\ out = <<>>
    /\ server = "none"
    /\ backlog = 0
    /\ sess = [i \in Sessions |-> NoThread]

Init ==
    /\ cfgIn = NoCfg
    /\ cfgOut = None
    /\ MainIdle("")
    /\ \E auth \in AuthHeaders, req \in Requests, rsp \in Responses :
           SessionStart(auth, req, rsp)

-----------------------------------------------------------------------------
(* handle_client *)

\* except Exception as e: sys.stderr.write(...); then the finally block
Raise(site) ==
    /\ raised' = site
    /\ log' = Append(log, error_msg(site))
    /\ pc' = "close_client"

\* lines 55-60: one client_sock.recv(4096) that returns bytes
RecvRequest ==
    /\ pc = "recv_request"
    /\ \E n \in ChunkLens(Len(pending["client"]), RecvSize) :
          /\ data' = data \o Take(pending["client"], n)
          /\ pending' = [pending EXCEPT !["client"] = Drop(@, n)]
    /\ pc' = IF Contains(data', CRLFCRLF) THEN "connect" ELSE "recv_request"
    /\ UNCHANGED <<cfgVars, sent, client_sock, upstream, shutWr>>
    /\ UNCHANGED <<auth_header, request_line, resp, fwd, opens, raised, log, pump, expired>>

\* a faulty RecvRequestEOF: an empty chunk breaks out of the read loop (as
\* the negotiation loop does) instead of closing and returning
RecvRequestEOFBreak ==
    /\ pc = "recv_request"
    /\ pending["client"] = ""
    /\ pc' = "connect"
    /\ UNCHANGED <<cfgVars, sockVars>>
    /\ UNCHANGED <<request_line, auth_header, data, resp, fwd, opens, raised, log, pump, expired>>

\* lines 57-59: the client closed before the terminator: close and return
\* (the finally block still runs)
RecvRequestEOF ==
    /\ pc = "recv_request"
    /\ pending["client"] = ""
    /\ client_sock' = "closed"
    /\ pc' = "close_client"
    /\ UNCHANGED <<cfgVars, pending, sent, upstream, shutWr>>
    /\ UNCHANGED <<request_line, auth_header, data, resp, fwd, opens, raised, log, pump, expired>>

\* line 56 raises (connection reset)
RecvRequestError ==
    /\ pc = "recv_request"
    /\ Raise("client_sock.recv")
    /\ UNCHANGED <<cfgVars, sockVars>>
    /\ UNCHANGED <<request_line, auth_header, data, resp, fwd, opens, pump, expired>>

\* line 67 raises: no socket could be created, upstream stays unbound
SocketError ==
    /\ pc = "connect"
    /\ Raise("socket.socket")
    /\ UNCHANGED <<cfgVars, sockVars>>
    /\ UNCHANGED <<request_line, auth_header, data, resp, fwd, opens, pump, expired>>

\* a faulty ConnectUpstream: the upstream connection is opened as soon as the
\* session starts, and again where the code opens it
ConnectUpstreamEager ==
    /\ pc \in {"recv_request", "connect"}
    /\ pc = "recv_request" => upstream = "unbound"
    /\ upstream' = "connected"
    /\ opens' = opens + 1
    /\ request_line' = IF pc = "connect" THEN lines(data)[1] ELSE ""
    /\ pc' = IF pc = "connect" THEN "send_request" ELSE pc
    /\ UNCHANGED <<cfgVars, pending, sent, client_sock, shutWr>>
    /\ UNCHANGED <<auth_header, data, resp, fwd, raised, log, pump, expired>>

\* lines 67-80: the upstream socket is created and connects; the header
\* block is split into lines and rewritten
ConnectUpstream ==
    /\ pc = "connect"
    /\ upstream' = "connected"
    /\ opens' = opens + 1
    /\ request_line' = lines(data)[1]
    /\ pc' = "send_request"
    /\ UNCHANGED <<cfgVars, pending, sent, client_sock, shutWr>>
    /\ UNCHANGED <<auth_header, data, resp, fwd, raised, log, pump, expired>>

\* a faulty ConnectError: a synthetic error response is sent to the client
\* when the connect fails
ConnectErrorReply ==
    /\ pc = "connect"
    /\ upstream' = "created"
    /\ opens' = opens + 1
    /\ sent' = [sent EXCEPT !["client"] = @ \o "HTTP/1.1 502 Bad Gateway\r\n\r\n"]
    /\ Raise("upstream.connect")
    /\ UNCHANGED <<cfgVars, pending, client_sock, shutWr>>
    /\ UNCHANGED <<request_line, auth_header, data, resp, fwd, pump, expired>>

\* lines 67-69: the socket is created, connect fails or times out
ConnectError ==
    /\ pc = "connect"
    /\ upstream' = "created"
    /\ opens' = opens + 1
    /\ Raise("upstream.connect")
    /\ UNCHANGED <<cfgVars, pending, sent, client_sock, shutWr>>
    /\ UNCHANGED <<request_line, auth_header, data, resp, fwd, pump, expired>>

\* line 84: where handle_client goes after the request was sent
AfterRequest == IF is_connect(request_line) THEN "negotiate" ELSE "start_response_relay"

\* lines 72-82: rewrite the header block and send it with the trailing bytes
SendRequest ==
    /\ pc = "send_request"
    /\ sent' = [sent EXCEPT !["upstream"] = @ \o upstream_request(data, auth_header)]
    /\ pc' = AfterRequest
    /\ UNCHANGED <<cfgVars, pending, client_sock, upstream, shutWr>>
    /\ UNCHANGED <<request_line, auth_header, data, resp, fwd, opens, raised, log, pump, expired>>

\* line 82 raises after delivering only part of the request
SendRequestError ==
    /\ pc = "send_request"
    /\ \E n \in PartialLens(Len(upstream_request(data, auth_header))) :
          sent' = [sent EXCEPT !["upstream"] =
                      @ \o Take(upstream_request(data, auth_header), n)]
    /\ Raise("upstream.sendall")
    /\ UNCHANGED <<cfgVars, pending, client_sock, upstream, shutWr>>
    /\ UNCHANGED <<request_line, auth_header, data, resp, fwd, opens, pump, expired>>

\* a faulty NegotiateRecv: relay(upstream, client_sock) is started as soon as
\* the terminator has been read, before resp is forwarded
NegotiateRecvStartsPump ==
    /\ pc = "negotiate"
    /\ \E n \in ChunkLens(Len(pending["upstream"]), RecvSize) :
          /\ resp' = resp \o Take(pending["upstream"], n)
          /\ pending' = [pending EXCEPT !["upstream"] = Drop(@, n)]
    /\ pc' = IF Contains(resp', CRLFCRLF) THEN "forward_response" ELSE "negotiate"
    /\ pump' = IF Contains(resp', CRLFCRLF) THEN [pump EXCEPT !["u2c"].pc = "recv"]
               ELSE pump
    /\ UNCHANGED <<cfgVars, sent, client_sock, upstream, shutWr>>
    /\ UNCHANGED <<request_line, auth_header, data, fwd, opens, raised, log, expired>>

\* lines 87-91: one upstream.recv(4096) that returns bytes
NegotiateRecv ==
    /\ pc = "negotiate"
    /\ \E n \in ChunkLens(Len(pending["upstream"]), RecvSize) :
          /\ resp' = resp \o Take(pending["upstream"], n)
          /\ pending' = [pending EXCEPT !["upstream"] = Drop(@, n)]
    /\ pc' = IF Contains(resp', CRLFCRLF) THEN "forward_response" ELSE "negotiate"
    /\ UNCHANGED <<cfgVars, sent, client_sock, upstream, shutWr>>
    /\ UNCHANGED <<request_line, auth_header, data, fwd, opens, raised, log, pump, expired>>

\* lines 89-90: the upstream closed before a terminator: break
NegotiateEOF ==
    /\ pc = "negotiate"
    /\ pending["upstream"] = ""
    /\ pc' = "forward_response"
    /\ UNCHANGED <<cfgVars, sockVars>>
    /\ UNCHANGED <<request_line, auth_header, data, resp, fwd, opens, raised, log, pump, expired>>

\* line 88 raises (the 30 s socket timeout, or a reset)
NegotiateError ==
    /\ pc = "negotiate"
    /\ Raise("upstream.recv")
    /\ UNCHANGED <<cfgVars, sockVars>>
    /\ UNCHANGED <<request_line, auth_header, data, resp, fwd, opens, pump, expired>>

\* a faulty ForwardResponse: only the header block of resp is forwarded,
\* bytes read past its terminator are dropped
ForwardResponseHeaderOnly ==
    /\ pc = "forward_response"
    /\ LET hdr == IF Contains(resp, CRLFCRLF)
                  THEN Take(resp, Find(resp, CRLFCRLF) + 3) ELSE resp
       IN  /\ sent' = [sent EXCEPT !["client"] = @ \o hdr]
           /\ fwd' = Append(fwd, hdr)
    /\ pc' = "check_tunnel"
    /\ UNCHANGED <<cfgVars, pending, client_sock, upstream, shutWr>>
    /\ UNCHANGED <<request_line, auth_header, data, resp, opens, raised, log, pump, expired>>

\* line 94: client_sock.sendall(resp)
ForwardResponse ==
    /\ pc = "forward_response"
    /\ sent' = [sent EXCEPT !["client"] = @ \o resp]
    /\ fwd' = Append(fwd, resp)
    /\ pc' = "check_tunnel"
    /\ UNCHANGED <<cfgVars, pending, client_sock, upstream, shutWr>>
    /\ UNCHANGED <<request_line, auth_header, data, resp, opens, raised, log, pump, expired>>

\* line 94 raises after delivering only part of resp
ForwardResponseError ==
    /\ pc = "forward_response"
    /\ \E n \in PartialLens(Len(resp)) :
          sent' = [sent EXCEPT !["client"] = @ \o Take(resp, n)]
    /\ fwd' = Append(fwd, resp)
    /\ Raise("client_sock.sendall")
    /\ UNCHANGED <<cfgVars, pending, client_sock, upstream, shutWr>>
    /\ UNCHANGED <<request_line, auth_header, data, resp, opens, pump, expired>>

\* line 97 raises UnicodeDecodeError
ResponseDecodeError ==
    /\ pc = "check_tunnel"
    /\ DecodeRaises(resp_line(resp))
    /\ Raise("resp_line.decode")
    /\ UNCHANGED <<cfgVars, sockVars>>
    /\ UNCHANGED <<request_line, auth_header, data, resp, fwd, opens, pump, expired>>

\* lines 98-102: the tunnel is established, t1 = relay(client_sock, upstream)
\* is started
TunnelEstablished ==
    /\ pc = "check_tunnel"
    /\ ~DecodeRaises(resp_line(resp))
    /\ tunnel_established(resp)
    /\ pump' = [pump EXCEPT !["c2u"].pc = "recv"]
    /\ pc' = "start_t2"
    /\ UNCHANGED <<cfgVars, sockVars>>
    /\ UNCHANGED <<request_line, auth_header, data, resp, fwd, opens, raised, log, expired>>

\* line 103: t2 = relay(upstream, client_sock) is started
StartT2 ==
    /\ pc = "start_t2"
    /\ pump' = [pump EXCEPT !["u2c"].pc = "recv"]
    /\ pc' = "join_t1"
    /\ UNCHANGED <<cfgVars, sockVars>>
    /\ UNCHANGED <<request_line, auth_header, data, resp, fwd, opens, raised, log, expired>>

\* lines 106-107: the negotiation failed and is reported
TunnelRejected ==
    /\ pc = "check_tunnel"
    /\ ~DecodeRaises(resp_line(resp))
    /\ ~tunnel_established(resp)
    /\ log' = Append(log, connect_failed_msg(resp))
    /\ pc' = "close_client"
    /\ UNCHANGED <<cfgVars, sockVars>>
    /\ UNCHANGED <<request_line, auth_header, data, resp, fwd, opens, raised, pump, expired>>

\* lines 110-111: not CONNECT: t1 = relay(upstream, client_sock) is started
StartResponseRelay ==
    /\ pc = "start_response_relay"
    /\ pump' = [pump EXCEPT !["u2c"].pc = "recv"]
    /\ pc' = "join_response"
    /\ UNCHANGED <<cfgVars, sockVars>>
    /\ UNCHANGED <<request_line, auth_header, data, resp, fwd, opens, raised, log, expired>>

\* t.join(timeout=...) returns because the thread has finished
Join(p, here, next) ==
    /\ pc = here
    /\ pump[p].pc = "done"
    /\ pc' = next
    /\ UNCHANGED <<cfgVars, sockVars>>
    /\ UNCHANGED <<request_line, auth_header, data, resp, fwd, opens, raised, log, pump, expired>>

\* t.join(timeout=...) returns because the timeout expired
JoinTimeout(p, here, next) ==
    /\ pc = here
    /\ pump[p].pc # "done"
    /\ expired' = expired \cup {p}
    /\ pc' = next
    /\ UNCHANGED <<cfgVars, sockVars>>
    /\ UNCHANGED <<request_line, auth_header, data, resp, fwd, opens, raised, log, pump>>

\* line 104: t1.join(timeout=300)
JoinT1 == Join("c2u", "join_t1", "join_t2")
JoinT1Timeout == JoinTimeout("c2u", "join_t1", "join_t2")

\* line 105: t2.join(timeout=300)
JoinT2 == Join("u2c", "join_t2", "close_client")
JoinT2Timeout == JoinTimeout("u2c", "join_t2", "close_client")

\* a faulty JoinResponseTimeout: the join returns at once, with the relay
\* thread still running and no timeout expired
JoinResponseNoWait ==
    /\ pc = "join_response"
    /\ pump["u2c"].pc # "done"
    /\ pc' = "close_client"
    /\ UNCHANGED <<cfgVars, sockVars>>
    /\ UNCHANGED <<request_line, auth_header, data, resp, fwd, opens, raised, log, pump, expired>>

\* line 112: t1.join(timeout=60)
JoinResponse == Join("u2c", "join_response", "close_client")
JoinResponseTimeout == JoinTimeout("u2c", "join_response", "close_client")

\* lines 117-120: finally: client_sock.close()
CloseClient ==
    /\ pc = "close_client"
    /\ client_sock' = "closed"
    /\ pc' = "close_upstream"
    /\ UNCHANGED <<cfgVars, pending, sent, upstream, shutWr>>
    /\ UNCHANGED <<request_line, auth_header, data, resp, fwd, opens, raised, log, pump, expired>>

\* a faulty CloseUpstream: only a connected upstream socket is closed, one
\* whose connect failed is leaked
CloseUpstreamIfConnected ==
    /\ pc = "close_upstream"
    /\ upstream' = IF upstream = "connected" THEN "closed" ELSE upstream
    /\ pc' = "done"
    /\ UNCHANGED <<cfgVars, pending, sent, client_sock, shutWr>>
    /\ UNCHANGED <<request_line, auth_header, data, resp, fwd, opens, raised, log, pump, expired>>

\* lines 121-124: finally: upstream.close(); the NameError of an unbound
\* upstream is swallowed
CloseUpstream ==
    /\ pc = "close_upstream"
    /\ upstream' = IF upstream = "unbound" THEN "unbound" ELSE "closed"
    /\ pc' = "done"
    /\ UNCHANGED <<cfgVars, pending, sent, client_sock, shutWr>>
    /\ UNCHANGED <<request_line, auth_header, data, resp, fwd, opens, raised, log, pump, expired>>

-----------------------------------------------------------------------------
(* relay(src, dst) *)

handlerVars == <<auth_header, pc, data, request_line, resp, fwd, opens, raised, log,
                 expired>>

\* line 39: src.recv(65536) returns bytes.  A recv that was already blocked
\* when the socket was closed can still return bytes.
PumpRecv(p) ==
    /\ pump[p].pc = "recv"
    /\ \E n \in ChunkLens(Len(pending[Src(p)]), RelayRecvSize) :
          /\ pump' = [pump EXCEPT ![p].pc = "send",
                                  ![p].chunk = Take(pending[Src(p)], n),
                                  ![p].got = @ \o Take(pending[Src(p)], n)]
          /\ pending' = [pending EXCEPT ![Src(p)] = Drop(@, n)]
    /\ UNCHANGED <<cfgVars, sent, client_sock, upstream, shutWr, handlerVars>>

\* lines 40-41: the peer of src closed: break
PumpRecvEOF(p) ==
    /\ pump[p].pc = "recv"
    /\ pending[Src(p)] = ""
    /\ pump' = [pump EXCEPT ![p].pc = "shutdown"]
    /\ UNCHANGED <<cfgVars, sockVars, handlerVars>>

\* line 39 raises (timeout, reset, or src closed by handle_client): pass
PumpRecvError(p) ==
    /\ pump[p].pc = "recv"
    /\ pump' = [pump EXCEPT ![p].pc = "shutdown"]
    /\ UNCHANGED <<cfgVars, sockVars, handlerVars>>

\* a faulty PumpSend: dst.send(data) instead of sendall: what one send
\* does not take is dropped and the loop reads on
PumpSendOnce(p) ==
    /\ pump[p].pc = "send"
    /\ ~Closed(Dst(p))
    /\ \E n \in ChunkLens(Len(pump[p].chunk), RelayRecvSize) :
          /\ sent' = [sent EXCEPT ![Dst(p)] = @ \o Take(pump[p].chunk, n)]
          /\ pump' = [pump EXCEPT ![p].pc = "recv", ![p].chunk = "",
                                  ![p].put = @ \o Take(pump[p].chunk, n)]
    /\ UNCHANGED <<cfgVars, pending, client_sock, upstream, shutWr, handlerVars>>

\* line 42: dst.sendall(data)
PumpSend(p) ==
    /\ pump[p].pc = "send"
    /\ ~Closed(Dst(p))
    /\ sent' = [sent EXCEPT ![Dst(p)] = @ \o pump[p].chunk]
    /\ pump' = [pump EXCEPT ![p].pc = "recv", ![p].chunk = "",
                            ![p].put = @ \o pump[p].chunk]
    /\ UNCHANGED <<cfgVars, pending, client_sock, upstream, shutWr, handlerVars>>

\* line 42 raises, after delivering part of the chunk unless dst is closed
PumpSendError(p) ==
    /\ pump[p].pc = "send"
    /\ \E n \in PartialLens(Len(pump[p].chunk)) :
          /\ Closed(Dst(p)) => n = 0
          /\ sent' = [sent EXCEPT ![Dst(p)] = @ \o Take(pump[p].chunk, n)]
          /\ pump' = [pump EXCEPT ![p].pc = "shutdown", ![p].chunk = "",
                                  ![p].put = @ \o Take(pump[p].chunk, n)]
    /\ UNCHANGED <<cfgVars, pending, client_sock, upstream, shutWr, handlerVars>>

\* a faulty PumpShutdown: the destination is closed instead of shut down
\* for writing
PumpShutdownCloses(p) ==
    /\ pump[p].pc = "shutdown"
    /\ client_sock' = IF Dst(p) = "client" THEN "closed" ELSE client_sock
    /\ upstream' = IF Dst(p) = "upstream" THEN "closed" ELSE upstream
    /\ pump' = [pump EXCEPT ![p].pc = "done"]
    /\ UNCHANGED <<cfgVars, pending, sent, shutWr, handlerVars>>

\* lines 45-49: dst.shutdown(SHUT_WR); an error (dst closed) is swallowed
PumpShutdown(p) ==
    /\ pump[p].pc = "shutdown"
    /\ shutWr' = IF Closed(Dst(p)) THEN shutWr ELSE shutWr \cup {Dst(p)}
    /\ pump' = [pump EXCEPT ![p].pc = "done"]
    /\ UNCHANGED <<cfgVars, pending, sent, client_sock, upstream, handlerVars>>

relay(p) ==
    \/ PumpRecv(p)
    \/ PumpRecvEOF(p)
    \/ PumpRecvError(p)
    \/ PumpSend(p)
    \/ PumpSendError(p)
    \/ PumpShutdown(p)

-----------------------------------------------------------------------------

handle_client ==
    \/ RecvRequest
    \/ RecvRequestEOF
    \/ RecvRequestError
    \/ SocketError
    \/ ConnectUpstream
    \/ ConnectError
    \/ SendRequest
    \/ SendRequestError
    \/ NegotiateRecv
    \/ NegotiateEOF
    \/ NegotiateError
    \/ ForwardResponse
    \/ ForwardResponseError
    \/ ResponseDecodeError
    \/ TunnelEstablished
    \/ StartT2
    \/ TunnelRejected
    \/ StartResponseRelay
    \/ JoinT1
    \/ JoinT1Timeout
    \/ JoinT2
    \/ JoinT2Timeout
    \/ JoinResponse
    \/ JoinResponseTimeout
    \/ CloseClient
    \/ CloseUpstream

Next ==
    \/ handle_client
    \/ \E p \in Pumps : relay(p)

Spec == Init /\ [][Next]_vars

-----------------------------------------------------------------------------
(* What the scheduling of a session guarantees *)

\* the steps of handle_client that cannot wait for ever: connect and every
\* upstream recv and sendall run under the 30 s timeout of line 68, the
\* joins have their own timeouts, the rest does not block
HandlerProgress ==
    \/ SocketError
    \/ ConnectUpstream
    \/ ConnectError
    \/ SendRequest
    \/ SendRequestError
    \/ NegotiateRecv
    \/ NegotiateEOF
    \/ NegotiateError
    \/ ForwardResponse
    \/ ForwardResponseError
    \/ ResponseDecodeError
    \/ TunnelEstablished
    \/ StartT2
    \/ TunnelRejected
    \/ StartResponseRelay
    \/ JoinT1
    \/ JoinT1Timeout
    \/ JoinT2
    \/ JoinT2Timeout
    \/ JoinResponse
    \/ JoinResponseTimeout
    \/ CloseClient
    \/ CloseUpstream

\* a relay thread that holds a chunk writes it or fails, and a thread that
\* left its loop shuts its destination down
PumpProgress(p) == PumpSend(p) \/ PumpSendError(p) \/ PumpShutdown(p)

\* upstream.recv returns within the 30 s timeout: bytes, b"" or an exception
UpstreamRecvReturns == PumpRecv("u2c") \/ PumpRecvEOF("u2c") \/ PumpRecvError("u2c")

\* client_sock has no timeout: its recv returns bytes that have arrived, but
\* nothing makes it return while the client neither sends nor closes, and a
\* recv that is already blocked is not woken by client_sock.close()
ClientRecvReturns == PumpRecv("c2u")

-----------------------------------------------------------------------------
(* The relay phase of a tunnel on its own: the session from line 98 on *)

\* the client streams that open a tunnel, and the upstream streams that
\* establish it
TunnelRequests == { r \in Requests : Contains(r, CRLFCRLF) /\ is_connect(lines(r)[1]) }
TunnelResponses ==
    { r \in Responses : Contains(r, CRLFCRLF) /\ ~DecodeRaises(resp_line(r))
                            /\ tunnel_established(r) }

\* handle_client at line 97 of a CONNECT session: the request was read up to
\* k bytes past its terminator and sent on, the response was read up to m
\* bytes past its terminator and forwarded
AtCheckTunnel(auth, req, rsp, k, m) ==
    /\ auth_header = auth
    /\ data = Take(req, header_end(req) + 4 + k)
    /\ resp = Take(rsp, header_end(rsp) + 4 + m)
    /\ pending = [s \in Socks |-> IF s = "client" THEN Drop(req, header_end(req) + 4 + k)
                                  ELSE Drop(rsp, header_end(rsp) + 4 + m)]
    /\ sent = [s \in Socks |-> IF s = "client" THEN resp
                               ELSE upstream_request(data, auth)]
    /\ client_sock = "open"
    /\ upstream = "connected"
    /\ shutWr = {}
    /\ pc = "check_tunnel"
    /\ request_line = lines(data)[1]
    /\ fwd = <<resp>>
    /\ opens = 1
    /\ raised = "none"
    /\ log = <<>>
    /\ pump = [p \in Pumps |-> IdlePump]
    /\ expired = {}

InitRelay ==
    /\ cfgIn = NoCfg
    /\ cfgOut = None
    /\ MainIdle("")
    /\ \E auth \in AuthHeaders, req \in TunnelRequests, rsp \in TunnelResponses :
          \E k \in {0, Len(rest(req))}, m \in {0, Len(rest(rsp))} :
              AtCheckTunnel(auth, req, rsp, k, m)

NextRelay ==
    \/ TunnelEstablished
    \/ StartT2
    \/ JoinT1
    \/ JoinT1Timeout
    \/ JoinT2
    \/ JoinT2Timeout
    \/ CloseClient
    \/ CloseUpstream
    \/ \E p \in Pumps : relay(p)

SpecRelay == InitRelay /\ [][NextRelay]_vars

SpecRelayFair ==
    /\ SpecRelay
    /\ WF_vars(HandlerProgress)
    /\ \A p \in Pumps : WF_vars(PumpProgress(p))
    /\ WF_vars(UpstreamRecvReturns)
    /\ WF_vars(ClientRecvReturns)

-----------------------------------------------------------------------------
(* parse_proxy_url applied to URLs scheme://user:pw@host:port *)

Schemes   == {"http", "https", "socks5"}
Users     == {"u", "bob"}
Passwords == {"p", "a:b", "p@q", "k=http://k"}
Hosts     == {"h", "proxy.example"}
Ports     == {80, 3128}

UrlOf(c) ==
    c.scheme \o "://" \o c.user \o ":" \o c.pw \o "@" \o c.host \o ":"
        \o ToString(c.port)

InitParse ==
    /\ cfgIn \in [scheme : Schemes, user : Users, pw : Passwords,
                  host : Hosts, port : Ports]
    /\ cfgOut = None
    /\ MainIdle(UrlOf(cfgIn))
    /\ SessionStart("", "", "")

\* line 131: parse_proxy_url(UPSTREAM_PROXY)
ParseUrl ==
    /\ cfgOut = None
    /\ cfgOut' = Some(parse_proxy_url(UPSTREAM_PROXY))
    /\ UNCHANGED <<cfgIn, mainVars, sockVars, sessVars>>

NextParse == ParseUrl

SpecParse == InitParse /\ [][NextParse]_vars

-----------------------------------------------------------------------------
(* main and the handler threads it starts *)

\* the values of UPSTREAM_PROXY considered; "" stands for no URL (None or an
\* empty variable, both false at line 127)
ProxyUrls ==
    { "", "http://u:p@h:80", "h:3128", "http://:p@h:80", "http://h",
      "http://h:x", "http://u:p@h:", "http://h:80/", "http://bob@h:80" }

\* everything of the session model that main() leaves alone
sessLocal == <<pc, data, request_line, resp, fwd, opens, raised, log, pump, expired>>

InitMain ==
    /\ cfgIn = NoCfg
    /\ cfgOut = None
    /\ \E url \in ProxyUrls : MainIdle(url)
    /\ SessionStart("", "", "")

\* lines 127-129: no URL: report and sys.exit(1)
MainNoUrl ==
    /\ main_pc = "start"
    /\ UPSTREAM_PROXY = ""
    /\ out' = Append(out, "ERROR: HTTPS_PROXY or HTTP_PROXY not set")
    /\ exit_status' = Some(1)
    /\ main_pc' = "exited"
    /\ UNCHANGED <<cfgIn, cfgOut, UPSTREAM_PROXY, server, backlog, sess>>
    /\ UNCHANGED <<sockVars, sessVars>>

\* lines 131-132: the URL parses; auth_header is built if there is a user
MainParse ==
    /\ main_pc = "start"
    /\ UPSTREAM_PROXY # ""
    /\ LET r == parse_proxy_url(UPSTREAM_PROXY) IN
          /\ r.ok
          /\ cfgOut' = Some(r)
          /\ auth_header' = IF r.user # None /\ r.user # Some("")
                            THEN make_auth_header(r.user[1], r.password[1])
                            ELSE ""
    /\ main_pc' = "bind"
    /\ UNCHANGED <<cfgIn, UPSTREAM_PROXY, exit_status, out, server, backlog, sess>>
    /\ UNCHANGED <<sockVars, sessLocal>>

\* a faulty MainParseError: a URL that does not parse is replaced by a
\* default upstream and main() goes on to bind
MainParseErrorDefaultPort ==
    /\ main_pc = "start"
    /\ UPSTREAM_PROXY # ""
    /\ ~parse_proxy_url(UPSTREAM_PROXY).ok
    /\ out' = Append(out, "WARNING: bad upstream URL")
    /\ main_pc' = "bind"
    /\ UNCHANGED <<cfgIn, cfgOut, UPSTREAM_PROXY, exit_status, server, backlog, sess>>
    /\ UNCHANGED <<sockVars, sessVars>>

\* line 131: parse_proxy_url raises ValueError, which nothing catches: the
\* interpreter prints the traceback and exits with status 1
MainParseError ==
    /\ main_pc = "start"
    /\ UPSTREAM_PROXY # ""
    /\ ~parse_proxy_url(UPSTREAM_PROXY).ok
    /\ out' = Append(out, "Traceback (most recent call last): ValueError")
    /\ exit_status' = Some(1)
    /\ main_pc' = "exited"
    /\ UNCHANGED <<cfgIn, cfgOut, UPSTREAM_PROXY, server, backlog, sess>>
    /\ UNCHANGED <<sockVars, sessVars>>

\* lines 134-139: socket, setsockopt, bind, listen(50), the banner
MainListen ==
    /\ main_pc = "bind"
    /\ server' = "listening"
    /\ out' = Append(out, "[proxy-relay] Listening")
    /\ main_pc' = "accept"
    /\ UNCHANGED <<cfgIn, cfgOut, UPSTREAM_PROXY, exit_status, backlog, sess>>
    /\ UNCHANGED <<sockVars, sessVars>>

\* line 136 raises OSError (the port is taken), which nothing catches
MainBindError ==
    /\ main_pc = "bind"
    /\ server' = "created"
    /\ out' = Append(out, "Traceback (most recent call last): OSError")
    /\ exit_status' = Some(1)
    /\ main_pc' = "exited"
    /\ UNCHANGED <<cfgIn, cfgOut, UPSTREAM_PROXY, backlog, sess>>
    /\ UNCHANGED <<sockVars, sessVars>>

\* a client connects to the listening socket
Arrive ==
    /\ server = "listening"
    /\ backlog + Cardinality({i \in Sessions : sess[i].st # "none"}) < MaxSessions
    /\ backlog' = backlog + 1
    /\ UNCHANGED <<cfgIn, cfgOut, UPSTREAM_PROXY, main_pc, exit_status, out, server, sess>>
    /\ UNCHANGED <<sockVars, sessVars>>

\* line 142: server.accept() returns the next connection
MainAccept ==
    /\ main_pc = "accept"
    /\ backlog > 0
    /\ \E i \in Sessions :
          /\ sess[i].st = "none"
          /\ \A j \in Sessions : j < i => sess[j].st # "none"
          /\ sess' = [sess EXCEPT ![i].st = "accepted"]
    /\ backlog' = backlog - 1
    /\ main_pc' = "dispatch"
    /\ UNCHANGED <<cfgIn, cfgOut, UPSTREAM_PROXY, exit_status, out, server>>
    /\ UNCHANGED <<sockVars, sessVars>>

\* a faulty MainDispatch: main() calls handle_client itself and accepts
\* again only when that call has returned
MainDispatchInline ==
    /\ \/ /\ main_pc = "dispatch"
          /\ \E i \in Sessions :
                /\ sess[i].st = "accepted"
                /\ sess' = [sess EXCEPT ![i].st = "running"]
          /\ main_pc' = "in_handler"
       \/ /\ main_pc = "in_handler"
          /\ \A i \in Sessions : sess[i].st \in {"none", "done"}
          /\ main_pc' = "accept"
          /\ sess' = sess
    /\ UNCHANGED <<cfgIn, cfgOut, UPSTREAM_PROXY, exit_status, out, server, backlog>>
    /\ UNCHANGED <<sockVars, sessVars>>

\* lines 143-144: a daemon thread running handle_client is started and
\* main() returns to accept
MainDispatch ==
    /\ main_pc = "dispatch"
    /\ \E i \in Sessions :
          /\ sess[i].st = "accepted"
          /\ sess' = [sess EXCEPT ![i].st = "running"]
    /\ main_pc' = "accept"
    /\ UNCHANGED <<cfgIn, cfgOut, UPSTREAM_PROXY, exit_status, out, server, backlog>>
    /\ UNCHANGED <<sockVars, sessVars>>

\* what a step of the handler thread of connection i leaves alone
ThreadFrame == <<cfgIn, cfgOut, UPSTREAM_PROXY, main_pc, exit_status, out, server, backlog>>

\* lines 52-115: something in handle_client raises; the except clause
\* reports it
HandlerRaises(i) ==
    /\ sess[i].st = "running"
    /\ sess' = [sess EXCEPT ![i] = [st |-> "finally", err |-> TRUE]]
    /\ UNCHANGED <<ThreadFrame, sockVars, sessVars>>

\* lines 52-112: handle_client reaches the end of its try block (or the
\* return at line 60)
HandlerReturns(i) ==
    /\ sess[i].st = "running"
    /\ sess' = [sess EXCEPT ![i].st = "finally"]
    /\ UNCHANGED <<ThreadFrame, sockVars, sessVars>>

\* lines 116-124: the finally block; the thread ends
HandlerFinally(i) ==
    /\ sess[i].st = "finally"
    /\ sess' = [sess EXCEPT ![i].st = "done"]
    /\ UNCHANGED <<ThreadFrame, sockVars, sessVars>>

\* the handler thread of connection i; it may also stay where it is for ever
\* (a client that never completes its header, a peer that never closes)
handler_thread(i) ==
    \/ HandlerRaises(i)
    \/ HandlerReturns(i)
    \/ HandlerFinally(i)

NextMain ==
    \/ MainNoUrl
    \/ MainParse
    \/ MainParseError
    \/ MainListen
    \/ MainBindError
    \/ Arrive
    \/ MainAccept
    \/ MainDispatch
    \/ \E i \in Sessions : handler_thread(i)

SpecMain == InitMain /\ [][NextMain]_vars

\* accept returns when a connection waits, and starting a thread does not
\* block; nothing is assumed about the progress of the handler threads
SpecMainFair == SpecMain /\ WF_vars(MainAccept) /\ WF_vars(MainDispatch)

-----------------------------------------------------------------------------
(* Properties of a session *)

Finishing == pc \in {"close_client", "close_upstream", "done"}

Relaying == pc \in {"start_t2", "join_t1", "join_t2"}

HeaderComplete == Contains(data, CRLFCRLF)

\* handle_client returned from line 59: the client closed before a terminator
IncompleteRequest == Finishing /\ raised = "none" /\ ~HeaderComplete

\* line 82 completed: the rewritten request was transmitted upstream
RequestSent ==
    /\ \/ pc \in {"negotiate", "forward_response", "check_tunnel",
                  "start_response_relay", "join_response"}
       \/ Relaying
       \/ Finishing /\ raised \in {"none", "upstream.recv", "client_sock.sendall",
                                   "resp_line.decode"}
    /\ HeaderComplete

\* the negotiation read loop of lines 87-91 was entered
NegotiationReached == RequestSent /\ is_connect(request_line)

\* the negotiation read loop of lines 87-91 has ended (terminator or EOF)
NegotiationRead ==
    /\ \/ pc \in {"forward_response", "check_tunnel"}
       \/ Relaying
       \/ Finishing /\ raised \in {"none", "client_sock.sendall", "resp_line.decode"}
    /\ NegotiationReached

\* lines 97-107 have decided the outcome of the negotiation
NegotiationDecided ==
    /\ Relaying \/ (Finishing /\ raised = "none")
    /\ NegotiationReached

NoPumpStarted == \A p \in Pumps : pump[p].pc = "idle"

NothingSent == \A s \in Socks : sent[s] = ""

\* the first space-separated word of a line, and the second
Word1(l) == Split(l, " ")[1]
Word2(l) == IF Len(Split(l, " ")) >= 2 THEN Split(l, " ")[2] ELSE ""

\* the status code of a response line is a number 200..299
Has2xx(l) ==
    /\ Len(Word2(l)) = 3
    /\ IsInt(Word2(l))
    /\ Char(Word2(l), 1) = "2"

\* C1: the upstream socket is created at most once per session, and no
\* upstream socket exists while the request bytes read so far do not contain
\* the terminator CR LF CR LF.
C1_UpstreamOnlyAfterHeader ==
    /\ opens <= 1
    /\ (upstream # "unbound" \/ opens > 0) => HeaderComplete

\* C1 witness: the upstream connection was just opened after a full header block
C1_Witness == pc = "send_request" /\ upstream = "connected" /\ opens = 1

\* C2 as claimed: every CONNECT session that reached negotiation and
\* accumulated upstream bytes has sent exactly those bytes, once, to the client
\* when the session ends.
C2_ForwardedInEverySession ==
    (pc = "done" /\ NegotiationReached /\ resp # "") => fwd = <<resp>>

\* C2 amended: handle_client passes bytes to the client socket at most once;
\* once the negotiation read loop has ended (terminator seen or upstream
\* closed) and line 94 has run, what it passed is exactly the accumulated resp,
\* delivered in full unless that send raised; before that, and when a
\* negotiation read raised, nothing was forwarded (and nothing reaches the
\* client at all before a forward or a pump).
C2_ForwardedOnceWhenRead ==
    /\ Len(fwd) <= 1
    /\ (NegotiationRead /\ pc # "forward_response") => fwd = <<resp>>
    /\ ~(NegotiationRead /\ pc # "forward_response") => fwd = <<>>
    /\ (fwd = <<>> /\ NoPumpStarted) => sent["client"] = ""
    /\ (fwd # <<>> /\ raised # "client_sock.sendall") => StartsWith(sent["client"], resp)

\* C2 witness: the upstream closed before a full header block and the partial
\* bytes were forwarded
C2_Witness ==
    /\ pc = "done"
    /\ resp # ""
    /\ ~Contains(resp, CRLFCRLF)
    /\ fwd = <<resp>>
    /\ sent["client"] = resp

\* C3 as claimed: whenever the first line of the upstream response carries a
\* status code 200..299, the session enters the bidirectional relay.
C3_Every2xxEstablishes ==
    (NegotiationDecided /\ Has2xx(resp_line(resp))) => pump["c2u"].pc # "idle"

\* C4 as claimed: when the first line of the upstream response carries no 2xx
\* status, no pump is ever started, and the session ends with the failure
\* reported and both sockets closed.
C4_Non2xxStartsNoPump ==
    (NegotiationRead /\ ~Has2xx(resp_line(resp))) =>
        /\ NoPumpStarted
        /\ pc = "done" =>
              log # <<>> /\ client_sock = "closed" /\ upstream = "closed"

\* C5: when handle_client has terminated, on whatever path, the client socket
\* is closed and the upstream socket, if one was created, is closed.
C5_ClosedOnEveryExit ==
    pc = "done" => client_sock = "closed" /\ (opens > 0 => upstream = "closed")

\* C5 witness: the session ended after a relay wait expired with a pump running
C5_Witness ==
    /\ pc = "done"
    /\ expired # {}
    /\ \E p \in Pumps : pump[p].pc \notin {"idle", "done"}
    /\ upstream = "closed"

\* C6: if the client closes before a complete header block was received, the
\* client socket is closed, no upstream socket was ever created, no bytes were
\* sent to any peer and no pump runs.
C6_IncompleteRequestClosesOnly ==
    IncompleteRequest =>
        /\ client_sock = "closed"
        /\ upstream = "unbound"
        /\ opens = 0
        /\ NothingSent
        /\ NoPumpStarted

\* C6 witness: the client sent part of a header block, closed, and the session ended
C6_Witness == IncompleteRequest /\ pc = "done" /\ data # ""

\* C7: if connecting to the upstream fails, the session goes to teardown: no
\* bytes were sent upstream or to the client, no pump was started, and at the
\* end the client socket (and the unconnected upstream socket) is closed.
C7_ConnectFailureEndsSession ==
    raised = "upstream.connect" =>
        /\ Finishing
        /\ NothingSent
        /\ NoPumpStarted
        /\ pc = "done" => client_sock = "closed" /\ upstream = "closed"

\* C7 witness: a session ended after its upstream connect failed
C7_Witness == raised = "upstream.connect" /\ pc = "done"

\* the raw header block of the request, and the header block that reached
\* the upstream
OrigBlock == Take(data, Find(data, CRLFCRLF) - 1)
SentBlock == Take(sent["upstream"], Find(sent["upstream"], CRLFCRLF) - 1)

\* the header lines of a block: every line after the first
HeaderLines(block) == Tail(Split(block, CRLF))

\* a header line whose field name is Proxy-Authorization, in any case
NamedProxyAuth(l) ==
    /\ Contains(l, ":")
    /\ Lower(Take(l, Find(l, ":") - 1)) = "proxy-authorization"

NotNamedProxyAuth(l) == ~NamedProxyAuth(l)

\* C8 as claimed: the header block forwarded upstream holds exactly one
\* Proxy-Authorization line, the configured one, when auth_header is not empty
\* and none when it is empty, and every other header line of the original
\* appears in it, unchanged and in the original order.
C8_OnlyConfiguredAuthLine ==
    RequestSent =>
        /\ SelectSeq(HeaderLines(SentBlock), NamedProxyAuth) =
              IF auth_header = "" THEN <<>>
              ELSE <<Take(auth_header, Len(auth_header) - 2)>>
        /\ SelectSeq(HeaderLines(SentBlock), NotNamedProxyAuth) =
              SelectSeq(HeaderLines(OrigBlock), NotNamedProxyAuth)

\* the method of the request as the client sent it, in upper case
MethodUpper == Upper(Word1(Split(OrigBlock, CRLF)[1]))

\* C9 as claimed: negotiation and the client-to-upstream pump happen only when
\* the method is exactly CONNECT (in any case); for any other method only the
\* upstream-to-client pump is started.
C9_OnlyConnectNegotiates ==
    (RequestSent /\ MethodUpper # "CONNECT") =>
        /\ pc \notin {"negotiate", "forward_response", "check_tunnel"}
        /\ ~Relaying
        /\ pump["c2u"].pc = "idle"
        /\ pc = "join_response" => pump["u2c"].pc # "idle"

\* C10 as claimed: for every URL scheme://user:pw@host:port, parse_proxy_url
\* returns exactly (host, port, user, pw).
C10_ParseRecoversParts ==
    cfgOut # None =>
        cfgOut[1] = [ok       |-> TRUE,
                     host     |-> cfgIn.host,
                     port     |-> cfgIn.port,
                     user     |-> Some(cfgIn.user),
                     password |-> Some(cfgIn.pw)]

-----------------------------------------------------------------------------
(* Properties of main *)

\* the host-port part of a URL: what follows its last "@"
HostPortPart(url) == IF Contains(url, "@") THEN Drop(url, RFind(url, "@")) ELSE url

\* the host-port part has no ":" followed by a decimal integer
NoParseablePort(url) ==
    LET hp == HostPortPart(url) IN
    ~Contains(hp, ":") \/ ~IsInt(Drop(hp, RFind(hp, ":")))

BadConfig == UPSTREAM_PROXY = "" \/ NoParseablePort(UPSTREAM_PROXY)

\* C11: when no upstream URL is configured, or its host-port part has no
\* parseable integer port, the listening socket is never created, bound or
\* listened on, no connection is ever accepted, and the only thing main()
\* does is exit with a non-zero status after printing an error.
C11_NoListenerOnBadConfig ==
    BadConfig =>
        /\ server = "none"
        /\ \A i \in Sessions : sess[i] = NoThread
        /\ main_pc \in {"start", "exited"}
        /\ main_pc = "exited" =>
              /\ exit_status # None
              /\ exit_status[1] # 0
              /\ out # <<>>

\* main() has exited on a URL whose port does not parse
C11_Witness ==
    /\ main_pc = "exited"
    /\ UPSTREAM_PROXY # ""
    /\ NoParseablePort(UPSTREAM_PROXY)
    /\ exit_status = Some(1)

-----------------------------------------------------------------------------
(* Properties of the relay threads *)

\* p is a prefix, or a suffix, of s
IsPrefix(p, s) == Len(p) <= Len(s) /\ Take(s, Len(p)) = p
IsSuffix(p, s) == Len(p) <= Len(s) /\ Drop(s, Len(s) - Len(p)) = p

\* C12: in each relay direction the bytes written to the destination are at
\* every moment a prefix of the bytes read from the source, and they are the
\* last bytes the destination received; between a read and the end of its
\* write exactly the chunk just read is outstanding, and whenever the thread
\* is about to read again everything read before has been written.
C12_WrittenIsPrefixOfRead ==
    \A p \in Pumps :
        /\ IsPrefix(pump[p].put, pump[p].got)
        /\ IsSuffix(pump[p].put, sent[Dst(p)])
        /\ pump[p].pc = "send" =>
              pump[p].chunk # "" /\ pump[p].put \o pump[p].chunk = pump[p].got
        /\ pump[p].pc \in {"idle", "recv"} =>
              pump[p].chunk = "" /\ pump[p].put = pump[p].got

\* a relay thread that wrote one chunk and holds the next one
C12_Witness ==
    \E p \in Pumps :
        /\ pump[p].pc = "send"
        /\ pump[p].put # ""
        /\ pump[p].put # pump[p].got

\* the session is a tunnel: relay(client_sock, upstream) was started
TunnelSession == pump["c2u"].pc # "idle"

AllPumpsStopped == \A p \in Pumps : pump[p].pc \in {"idle", "done"}

BothSocketsClosed == client_sock = "closed" /\ upstream = "closed"

\* C13: handle_client leaves the relay phase of a tunnel only when each
\* relay thread has stopped or its wait has expired; once a wait has
\* expired both sockets get closed, and every relay thread of the session
\* eventually stops.
C13_ExpiryStopsEveryPump ==
    /\ [](TunnelSession /\ Finishing => \A p \in Pumps : pump[p].pc = "done" \/ p \in expired)
    /\ (TunnelSession /\ expired # {}) ~> BothSocketsClosed
    /\ (TunnelSession /\ expired # {}) ~> AllPumpsStopped

\* a connection waits for main(): in the backlog, or accepted and without
\* its thread
ConnectionWaiting == backlog > 0 \/ \E i \in Sessions : sess[i].st = "accepted"

\* a step that moves the handler thread of connection i changes neither
\* another connection's thread nor anything of main()
IsolatedStep ==
    \A i \in Sessions :
        (sess[i].st \in {"running", "finally"} /\ sess'[i] # sess[i]) =>
            /\ \A j \in Sessions \ {i} : sess'[j] = sess[j]
            /\ UNCHANGED <<main_pc, exit_status, server, backlog, auth_header, cfgOut>>

\* C14: sessions are isolated: a step of one session's handler thread,
\* whether it fails or finishes, changes no other session and nothing of the
\* supervisor; and whatever the handler threads do, including standing still
\* for ever, every connection that waits is accepted and gets its thread.
C14_SessionsIsolated ==
    /\ [][IsolatedStep]_vars
    /\ ConnectionWaiting ~> ~ConnectionWaiting

\* a later connection has been served to the end while an earlier one is
\* still in its handler
C14_Witness ==
    \E i, j \in Sessions :
        /\ i < j
        /\ sess[i].st = "running"
        /\ sess[j] = [st |-> "done", err |-> FALSE]

\* the relay thread of the opposite direction
Opposite(p) == IF p = "c2u" THEN "u2c" ELSE "c2u"

\* a step in which relay thread p leaves its loop or ends
PumpStops(p) ==
    /\ pump[p].pc \in {"recv", "send", "shutdown"}
    /\ pump'[p].pc \in {"shutdown", "done"}
    /\ pump'[p].pc # pump[p].pc

\* C15: a relay thread that stops, after an empty read or a failed read or
\* write, closes neither socket and leaves the opposite thread as it is; the
\* only thing it does to a socket is the shutdown(SHUT_WR) of its own
\* destination, which it does before it ends unless that socket is closed.
C15_StopOnlyHalfCloses ==
    [][\A p \in Pumps :
          PumpStops(p) =>
              /\ client_sock' = client_sock
              /\ upstream' = upstream
              /\ pump'[Opposite(p)] = pump[Opposite(p)]
              /\ shutWr \subseteq shutWr'
              /\ shutWr' \subseteq shutWr \cup {Dst(p)}
              /\ pump'[p].pc = "done" /\ ~Closed(Dst(p)) => Dst(p) \in shutWr']_vars

\* one thread has ended and shut its destination down for writing; the
\* opposite thread has since read from that very socket and can write what it
\* read
C15_Witness ==
    \E p \in Pumps :
        /\ pump[p].pc = "done"
        /\ Dst(p) \in shutWr
        /\ pump[Opposite(p)].pc = "send"
        /\ ~Closed(Dst(Opposite(p)))
        /\ ~Closed(Dst(p))

\* relay thread p has been started and has not ended
Running(p) == pump[p].pc \in {"recv", "send", "shutdown"}

\* the units that read from, or write to, socket s in the current state:
\* relay threads inside their loop, and handle_client ("handler") while it is
\* in its framing or negotiation loop, or at one of its two sendall calls
Readers(s) ==
    { p \in Pumps : pump[p].pc \in {"recv", "send"} /\ Src(p) = s }
        \cup (IF \/ s = "client" /\ pc = "recv_request"
                 \/ s = "upstream" /\ pc = "negotiate"
              THEN {"handler"} ELSE {})
Writers(s) ==
    { p \in Pumps : Running(p) /\ Dst(p) = s }
        \cup (IF \/ s = "upstream" /\ pc = "send_request"
                 \/ s = "client" /\ pc = "forward_response"
              THEN {"handler"} ELSE {})

OneReaderOneWriter ==
    \A s \in Socks : Cardinality(Readers(s)) <= 1 /\ Cardinality(Writers(s)) <= 1

\* while a relay thread runs, handle_client is at none of its own recv or
\* sendall calls
NoHandlerIOWhileRunning ==
    (\E p \in Pumps : Running(p)) =>
        pc \notin {"recv_request", "send_request", "negotiate", "forward_response"}

\* C16 as stated: each socket has at most one reader and at most one writer,
\* and while a relay thread runs handle_client neither reads nor writes nor
\* has closed a socket, also after a join has expired.
C16_HandlerIdleWhilePumpsRun ==
    /\ OneReaderOneWriter
    /\ NoHandlerIOWhileRunning
    /\ (\E p \in Pumps : Running(p)) =>
          /\ client_sock = "open"
          /\ upstream = "connected"

\* C16, amended: each socket has at most one reader and at most one writer;
\* while a relay thread runs handle_client neither reads nor writes, and it
\* closes a socket while a relay thread runs only after the join on that
\* thread has expired.
C16_HandlerClosesOnlyAfterExpiry ==
    /\ OneReaderOneWriter
    /\ NoHandlerIOWhileRunning
    /\ \A p \in Pumps :
          Running(p) /\ (client_sock = "closed" \/ upstream = "closed") => p \in expired

\* a join has expired and handle_client has closed both sockets while the
\* relay thread is still in its loop
C16_Witness ==
    \E p \in Pumps :
        /\ pump[p].pc \in {"recv", "send"}
        /\ p \in expired
        /\ client_sock = "closed"
        /\ upstream = "closed"

\* the lines of a sequence, each followed by CR LF
RECURSIVE ConcatLines(_)
ConcatLines(ls) == IF ls = <<>> THEN "" ELSE Head(ls) \o CRLF \o ConcatLines(Tail(ls))

\* the bytes the framing loop read past the header terminator
TrailingBytes == Drop(data, Find(data, CRLFCRLF) + 3)

\* C17: the first bytes a session transmits upstream are the client's request
\* line as it was received, the configured auth_header line, the remaining
\* header lines of the original as they were received, a blank line, and
\* then the bytes already read past the header terminator.
C17_UpstreamStartsWithRewrittenRequest ==
    RequestSent =>
        StartsWith(sent["upstream"],
                   Split(OrigBlock, CRLF)[1] \o CRLF
                       \o auth_header
                       \o ConcatLines(SelectSeq(HeaderLines(OrigBlock), NotNamedProxyAuth))
                       \o CRLF
                       \o TrailingBytes)

\* everything the upstream sends on this connection: what the negotiation
\* loop read, what relay(upstream, client_sock) read, and what is still to
\* come
UpstreamStream == resp \o pump["u2c"].got \o pending["upstream"]

\* C18: in a CONNECT session the bytes the client has received are at every
\* moment a prefix of the bytes the upstream sent, nothing lost, repeated or
\* out of order; and relay(upstream, client_sock) runs only after all bytes
\* read during negotiation, those past the terminator included, were written
\* to the client.
C18_ClientStreamIsPrefixOfUpstream ==
    NegotiationReached =>
        /\ UpstreamStream \in Responses
        /\ IsPrefix(sent["client"], UpstreamStream)
        /\ pump["u2c"].pc # "idle" =>
              /\ fwd = <<resp>>
              /\ sent["client"] = resp \o pump["u2c"].put

\* the negotiation loop read past the terminator, and the relay thread has
\* since delivered later bytes
C18_Witness ==
    /\ NegotiationReached
    /\ Contains(resp, CRLFCRLF)
    /\ Find(resp, CRLFCRLF) + 3 < Len(resp)
    /\ pump["u2c"].put # ""

\* the first line of the bytes read during negotiation
FirstResponseLine == Split(resp, CRLF)[1]

\* C19 as stated: in a CONNECT session relay threads are started only if a
\* complete response header block, ending in CR LF CR LF, was received; an
\* upstream that closes before the terminator gets no relay thread.
C19_TunnelNeedsCompleteHeader ==
    (NegotiationReached /\ ~NoPumpStarted) => Contains(resp, CRLFCRLF)

\* C19, amended: in a CONNECT session relay threads are started only after
\* the negotiation loop has ended, with the terminator or because the
\* upstream closed first, and its bytes were forwarded, and only if their
\* first line contains " 200 "; a response without " 200 " in its first line,
\* complete or cut short, gets no relay thread.
C19_TunnelNeedsEndedNegotiation ==
    /\ (NegotiationReached /\ ~NoPumpStarted) =>
          /\ Contains(resp, CRLFCRLF) \/ UpstreamStream = resp
          /\ fwd = <<resp>>
          /\ Contains(FirstResponseLine, " 200 ")
    /\ (NegotiationDecided /\ ~Contains(FirstResponseLine, " 200 ")) => NoPumpStarted

\* relay threads were started on a response that the upstream cut short
\* before the terminator
C19_Witness ==
    /\ NegotiationReached
    /\ ~NoPumpStarted
    /\ ~Contains(resp, CRLFCRLF)

\* C20: a session that is not a CONNECT session and ends without an
\* exception has passed every byte of the client on to the upstream: none is
\* left unread on the client socket, and the bytes read past the header
\* terminator are the last bytes the upstream received.
C20_EveryClientByteReachesUpstream ==
    (pc = "done" /\ raised = "none" /\ RequestSent /\ ~is_connect(request_line)) =>
        /\ pending["client"] = ""
        /\ IsSuffix(TrailingBytes, sent["upstream"])

=============================================================================
